---- MODULE Spec2Model ----
(***************************************************************************)
(* Drug Development Research Explorer: the search form (client), the       *)
(* /api/search proxy (POST) with its query builder (buildQueryURL), and    *)
(* the bibliographic provider as the environment.                          *)
(*                                                                         *)
(* JavaScript values are records tagged by their type; a string is the     *)
(* sequence of its characters, so that trim, parseInt and template         *)
(* literals are computed character by character.  A URL is the ordered     *)
(* list of its searchParams entries.                                       *)
(***************************************************************************)
EXTENDS Integers, Sequences, FiniteSets, TLC

VARIABLES params, results, total, status, error, slots, inv, lastSettled

vars == <<params, results, total, status, error, slots, inv, lastSettled>>

\* ---- bounds ----
MaxSubmits == 2
MaxPapers == 2

Ids == 1..MaxSubmits

\* ---- JavaScript values ----
Undefined == [t |-> "undefined"]
Null == [t |-> "null"]
NaN == [t |-> "number", nan |-> TRUE, n |-> 0]
Num(k) == [t |-> "number", nan |-> FALSE, n |-> k]
Str(s) == [t |-> "string", s |-> s]
Arr(items) == [t |-> "array", items |-> items]
Malformed == [t |-> "malformed"]

\* ToBoolean, as used by !x, x ? a : b, x || y and if (x)
Truthy(v) ==
  CASE v.t = "undefined" -> FALSE
    [] v.t = "null" -> FALSE
    [] v.t = "number" -> ~v.nan /\ v.n # 0
    [] v.t = "string" -> v.s # <<>>
    [] OTHER -> TRUE

\* a ?? b
Coalesce(a, b) == IF a.t \in {"undefined", "null"} THEN b ELSE a

IsWhite(c) == c \in {" ", "\t"}

RECURSIVE TrimStart(_)
TrimStart(s) ==
  IF s # <<>> /\ IsWhite(Head(s)) THEN TrimStart(Tail(s)) ELSE s

RECURSIVE TrimEnd(_)
TrimEnd(s) ==
  IF s # <<>> /\ IsWhite(s[Len(s)]) THEN TrimEnd(SubSeq(s, 1, Len(s) - 1)) ELSE s

\* String.prototype.trim
\* (faulty variant: the value is used untrimmed)
TrimNone(s) == s
Trim(s) == TrimEnd(TrimStart(s))

DigitChars == <<"0", "1", "2", "3", "4", "5", "6", "7", "8", "9">>
IsDigit(c) == \E i \in 1..Len(DigitChars) : DigitChars[i] = c
DigitVal(c) == (CHOOSE i \in 1..Len(DigitChars) : DigitChars[i] = c) - 1

RECURSIVE NatToChars(_)
NatToChars(k) ==
  IF k < Len(DigitChars) THEN <<DigitChars[k + 1]>>
  ELSE NatToChars(k \div Len(DigitChars)) \o <<DigitChars[(k % Len(DigitChars)) + 1]>>

\* ToString of a JavaScript value (template literals, parseInt's argument)
JSToString(v) ==
  CASE v.t = "string" -> v.s
    [] v.t = "number" ->
         IF v.nan THEN <<"N", "a", "N">>
         ELSE IF v.n < 0 THEN <<"-">> \o NatToChars(0 - v.n)
         ELSE NatToChars(v.n)
    [] v.t = "null" -> <<"n", "u", "l", "l">>
    [] OTHER -> <<"u", "n", "d", "e", "f", "i", "n", "e", "d">>

RECURSIVE Text(_)
Text(s) == IF s = <<>> THEN "" ELSE Head(s) \o Text(Tail(s))

RECURSIVE DigitPrefix(_)
DigitPrefix(s) ==
  IF s # <<>> /\ IsDigit(Head(s)) THEN <<Head(s)>> \o DigitPrefix(Tail(s)) ELSE <<>>

RECURSIVE DigitsValue(_, _)
DigitsValue(s, acc) ==
  IF s = <<>> THEN acc
  ELSE DigitsValue(Tail(s), acc * Len(DigitChars) + DigitVal(Head(s)))

\* Number.parseInt(v, 10)
ParseInt(v) ==
  LET S == TrimStart(JSToString(v))
      neg == S # <<>> /\ Head(S) = "-"
      R == IF S # <<>> /\ Head(S) \in {"+", "-"} THEN Tail(S) ELSE S
      Z == DigitPrefix(R)
  IN IF Z = <<>> THEN NaN
     ELSE Num(IF neg THEN 0 - DigitsValue(Z, 0) ELSE DigitsValue(Z, 0))

\* Number.isFinite
IsFinite(v) == v.t = "number" /\ ~v.nan

\* Number.isFinite(v) ? v : undefined
\* (faulty variant: the Number.isFinite test is left out)
FiniteOrUndefinedLax(v) == v
FiniteOrUndefined(v) == IF IsFinite(v) THEN v ELSE Undefined

\* ---- the query builder ----
DEFAULT_LIMIT == 15
DefaultStartYear == 1900
CurrentYears == {2025, 2026}
FieldList == "title,abstract,year,authors,venue,url,publicationTypes,journal"

RECURSIVE Join(_, _)
Join(xs, sep) ==
  IF xs = <<>> THEN ""
  ELSE IF Len(xs) = 1 THEN xs[1]
  ELSE xs[1] \o sep \o Join(Tail(xs), sep)

\* the local array `filters` of buildQueryURL when it is joined; `now` is
\* new Date().getFullYear()
\* (faulty variant: the publication-type clause is pushed first)
BuildFiltersPubFirst(args, now) ==
  (IF Truthy(args.publicationType)
     THEN <<"publicationTypes:" \o Text(JSToString(args.publicationType))>>
     ELSE <<>>)
  \o
  (IF Truthy(args.startYear) \/ Truthy(args.endYear)
     THEN <<"year>=" \o Text(JSToString(Coalesce(args.startYear, Num(DefaultStartYear)))),
            "year<=" \o Text(JSToString(Coalesce(args.endYear, Num(now))))>>
     ELSE <<>>)
BuildFilters(args, now) ==
  (IF Truthy(args.startYear) \/ Truthy(args.endYear)
     THEN <<"year>=" \o Text(JSToString(Coalesce(args.startYear, Num(DefaultStartYear)))),
            "year<=" \o Text(JSToString(Coalesce(args.endYear, Num(now))))>>
     ELSE <<>>)
  \o
  (IF Truthy(args.publicationType)
     THEN <<"publicationTypes:" \o Text(JSToString(args.publicationType))>>
     ELSE <<>>)

\* the searchParams entries of the URL that buildQueryURL returns
buildQueryURL(args, now) ==
  LET filters == BuildFilters(args, now)
  IN << <<"query", Text(JSToString(args.query))>>,
        <<"limit", Text(NatToChars(DEFAULT_LIMIT))>>,
        <<"fields", FieldList>> >>
     \o (IF Len(filters) > 0 THEN << <<"filter", Join(filters, ",")>> >> ELSE <<>>)

HasParam(url, name) == \E i \in 1..Len(url) : url[i][1] = name
Param(url, name) == url[CHOOSE i \in 1..Len(url) : url[i][1] = name][2]

\* ---- the proxy: POST /api/search ----
NoResponse == [status |-> 0, body |-> [none |-> TRUE]]
ErrorResponse(code, msg) == [status |-> code, body |-> [error |-> msg]]
QueryRequired == ErrorResponse(400, "Query is required.")
UpstreamFailed == ErrorResponse(502, "Failed to retrieve research papers.")
\* the catch block
\* (faulty variant: the caught error's message is returned)
CaughtLeaky == ErrorResponse(500, "fetch failed")
Caught == ErrorResponse(500, "Unexpected server error.")

IdleInvocation ==
  [pc |-> "idle", raw |-> Undefined, now |-> 0, filters |-> <<>>, apiUrl |-> <<>>,
   calls |-> 0, provider |-> [kind |-> "none"], response |-> NoResponse]

Finished(raw, now, resp) ==
  [IdleInvocation EXCEPT !.pc = "done", !.raw = raw, !.now = now, !.response = resp]

\* a field of the destructured payload: a non-object JSON value has none
Field(raw, name) == IF raw.t = "object" THEN raw[name] ELSE Undefined

\* POST from its entry to the outbound fetch: the invocation either ends
\* (400, 500) or is left awaiting the provider with one fetch issued
POST(raw, now) ==
  IF raw.t \in {"malformed", "null"} THEN Finished(raw, now, Caught)
  ELSE
    LET query == Field(raw, "query")
        startYear == Field(raw, "startYear")
        endYear == Field(raw, "endYear")
        publicationType == Field(raw, "publicationType")
    IN IF ~Truthy(query) THEN Finished(raw, now, QueryRequired)
       ELSE IF query.t # "string" THEN Finished(raw, now, Caught)
       ELSE IF ~Truthy(Str(Trim(query.s))) THEN Finished(raw, now, QueryRequired)
       ELSE IF publicationType.t \notin {"undefined", "null", "string"}
         THEN Finished(raw, now, Caught)
       ELSE
         LET startYearNumber == IF Truthy(startYear) THEN ParseInt(startYear) ELSE Undefined
             endYearNumber == IF Truthy(endYear) THEN ParseInt(endYear) ELSE Undefined
             sanitizedPublicationType ==
               IF publicationType.t = "string" THEN Str(Trim(publicationType.s))
               ELSE Undefined
             args == [query |-> Str(Trim(query.s)),
                      startYear |-> FiniteOrUndefined(startYearNumber),
                      endYear |-> FiniteOrUndefined(endYearNumber),
                      publicationType |->
                        IF Truthy(sanitizedPublicationType) THEN sanitizedPublicationType
                        ELSE Undefined]
         IN [IdleInvocation EXCEPT
               !.pc = "fetching", !.raw = raw, !.now = now,
               !.filters = BuildFilters(args, now),
               !.apiUrl = buildQueryURL(args, now),
               !.calls = 1]

\* response.ok
ResponseOk(st) == st \in 200..299

\* NextResponse.json({papers, total}): JSON.stringify drops undefined members
\* (faulty variant: total is recomputed as the page length)
RelayedBodyCounted(data, count) ==
  IF data.t = "array" THEN [papers |-> data, total |-> Num(Len(data.items))]
  ELSE [total |-> count]
RelayedBody(data, count) ==
  IF data.t # "undefined" /\ count.t # "undefined" THEN [papers |-> data, total |-> count]
  ELSE IF data.t # "undefined" THEN [papers |-> data]
  ELSE IF count.t # "undefined" THEN [total |-> count]
  ELSE <<>>

\* POST after the provider's response `resp` has arrived
AfterResponse(resp) ==
  IF ~ResponseOk(resp.status)
    THEN IF resp.readable THEN UpstreamFailed ELSE Caught
  ELSE IF ~resp.readable \/ resp.body.t \in {"malformed", "null"} THEN Caught
  ELSE [status |-> 200,
        body |-> RelayedBody(Field(resp.body, "data"), Field(resp.body, "total"))]

\* POST when the outbound fetch rejects
\* (faulty variant: the fetch is issued again)
AfterRejectRetry(invocation) == [invocation EXCEPT !.calls = @ + 1]
AfterReject(invocation) ==
  [invocation EXCEPT !.pc = "done", !.provider = [kind |-> "rejected"],
                     !.response = Caught]

\* ---- inputs ----
Chars(n) ==
  CASE n = "empty" -> <<>>
    [] n = "blank" -> <<" ">>
    [] n = "blanks" -> <<" ", "\t">>
    [] n = "a" -> <<"a">>
    [] n = "a b" -> <<" ", "a", " ", "b", " ">>
    [] n = "abc" -> <<"a", "b", "c">>
    [] n = "0" -> <<"0">>
    [] n = "2010" -> <<"2", "0", "1", "0">>
    [] n = "2015" -> <<"2", "0", "1", "5">>
    [] n = "-5" -> <<"-", "5">>
    [] n = "12a" -> <<"1", "2", "a">>
    [] n = "Review" -> <<"R", "e", "v", "i", "e", "w">>
    [] n = "Review padded" -> <<" ", "R", "e", "v", "i", "e", "w", " ">>
    [] n = "Case Report" -> <<"C", "a", "s", "e", " ", "R", "e", "p", "o", "r", "t">>

RawQueries ==
  {Undefined, Null, Num(0), Num(7)}
  \cup {Str(Chars(n)) : n \in {"empty", "blank", "blanks", "a", "a b"}}
RawYears ==
  {Undefined, Num(2010)}
  \cup {Str(Chars(n)) : n \in {"empty", "blank", "abc", "0", "2010", "-5", "12a"}}
RawPublicationTypes ==
  {Undefined, Num(5)}
  \cup {Str(Chars(n)) : n \in {"empty", "blank", "Review padded", "Case Report"}}
RawPayloads ==
  {Malformed, Null, Num(5)}
  \cup [t : {"object"}, query : RawQueries, startYear : RawYears,
        endYear : RawYears, publicationType : RawPublicationTypes]

PaperIds == {"p1", "p2"}
PaperLists == UNION {[1..k -> PaperIds] : k \in 0..MaxPapers}
ProviderBodies ==
  {Malformed, Null, Num(5)}
  \cup [t : {"object"},
        data : {Undefined} \cup {Arr(l) : l \in PaperLists},
        total : {Undefined, Num(0), Num(42)}]
ProviderStatuses == {200, 404, 503}
ProviderResponses ==
  [kind : {"response"}, status : ProviderStatuses, body : ProviderBodies,
   readable : BOOLEAN]

\* ---- the client: SearchForm ----
Msg(m) == [t |-> "message", text |-> m]
EmptyQueryMessage == Msg("Enter a research topic, drug target, or molecule.")
FetchFailedMessage == Msg("Unable to fetch research papers. Try refining your filters.")
NetworkErrorMessage == Msg("Failed to fetch")

UnusedSlot == [stage |-> "unused", payload |-> Undefined, fetchCalls |-> 0]

\* useMemo(() => payload, [params]); JSON.stringify leaves out absent members
normalizedFilters(p) ==
  [t |-> "object",
   query |-> Str(Trim(p.query.s)),
   startYear |-> IF Truthy(p.startYear) THEN p.startYear ELSE Undefined,
   endYear |-> IF Truthy(p.endYear) THEN p.endYear ELSE Undefined,
   publicationType |-> IF Truthy(p.publicationType) THEN p.publicationType ELSE Undefined]

FormEdits ==
  {<<"query", Chars("a")>>, <<"query", Chars("blank")>>, <<"startYear", Chars("2010")>>,
   <<"publicationType", Chars("Review")>>}

\* the responses the provider gives in the client runs
SearchResponses ==
  {[kind |-> "response", status |-> 503, body |-> Malformed, readable |-> TRUE],
   [kind |-> "response", status |-> 200, readable |-> TRUE,
    body |-> [t |-> "object", data |-> Arr(<<"p1">>), total |-> Num(42)]],
   [kind |-> "response", status |-> 200, readable |-> TRUE,
    body |-> [t |-> "object", data |-> Arr(<<>>), total |-> Num(0)]]}

BodyField(body, name) == IF name \in DOMAIN body THEN body[name] ELSE Undefined

Init ==
  /\ params = [query |-> Str(<<>>), startYear |-> Undefined, endYear |-> Undefined,
               publicationType |-> Undefined]
  /\ results = Arr(<<>>)
  /\ total = Null
  /\ status = "idle"
  /\ error = Null
  /\ slots = [i \in Ids |-> UnusedSlot]
  /\ inv = [i \in Ids |-> IdleInvocation]
  /\ lastSettled = 0

handleChange(field, value) ==
  /\ params' = [params EXCEPT ![field] = Str(value)]
  /\ UNCHANGED <<results, total, status, error, slots, inv, lastSettled>>

\* handleSubmit up to its await: the submission takes the next unused slot
handleSubmit(id) ==
  /\ slots[id].stage = "unused"
  /\ \A j \in Ids : j < id => slots[j].stage # "unused"
  /\ lastSettled' = 0
  /\ IF ~Truthy(Str(Trim(params.query.s)))
       THEN /\ error' = EmptyQueryMessage
            /\ status' = "error"
            /\ slots' = [slots EXCEPT ![id].stage = "rejected",
                                      ![id].payload = normalizedFilters(params)]
       ELSE /\ status' = "loading"
            /\ error' = Null
            /\ slots' = [slots EXCEPT ![id] =
                 [stage |-> "inflight", payload |-> normalizedFilters(params),
                  fetchCalls |-> slots[id].fetchCalls + 1]]
  /\ UNCHANGED <<params, results, total, inv>>

\* the catch block of handleSubmit when fetch('/api/search') itself rejects
ClientFetchRejects(id) ==
  /\ slots[id].stage = "inflight"
  /\ inv[id].pc = "idle"
  /\ error' = NetworkErrorMessage
  /\ status' = "error"
  /\ slots' = [slots EXCEPT ![id].stage = "settled"]
  /\ lastSettled' = id
  /\ UNCHANGED <<params, results, total, inv>>

\* handleSubmit after its await: the proxy's response has arrived
\* (variant with a sequencing token: a response older than one already shown is
\* discarded)
SettleKeepsFirst(id) ==
  /\ slots[id].stage = "inflight"
  /\ inv[id].pc = "done"
  /\ slots' = [slots EXCEPT ![id].stage = "settled"]
  /\ lastSettled' = id
  /\ IF \E j \in Ids : j > id /\ slots[j].stage = "settled"
       THEN UNCHANGED <<results, total, status, error>>
       ELSE IF ~ResponseOk(inv[id].response.status)
         THEN /\ error' = FetchFailedMessage
              /\ status' = "error"
              /\ UNCHANGED <<results, total>>
         ELSE /\ results' = BodyField(inv[id].response.body, "papers")
              /\ total' = BodyField(inv[id].response.body, "total")
              /\ status' = "success"
              /\ UNCHANGED error
  /\ UNCHANGED <<params, inv>>
ClientResolves(id) ==
  /\ slots[id].stage = "inflight"
  /\ inv[id].pc = "done"
  /\ slots' = [slots EXCEPT ![id].stage = "settled"]
  /\ lastSettled' = id
  /\ IF ~ResponseOk(inv[id].response.status)
       THEN /\ error' = FetchFailedMessage
            /\ status' = "error"
            /\ UNCHANGED <<results, total>>
       ELSE /\ results' = BodyField(inv[id].response.body, "papers")
            /\ total' = BodyField(inv[id].response.body, "total")
            /\ status' = "success"
            /\ UNCHANGED error
  /\ UNCHANGED <<params, inv>>

\* ---- the proxy's steps ----
\* the client's request reaches the route handler
ProxyReceives(id) ==
  /\ slots[id].stage = "inflight"
  /\ inv[id].pc = "idle"
  /\ \E now \in CurrentYears : inv' = [inv EXCEPT ![id] = POST(slots[id].payload, now)]
  /\ UNCHANGED <<params, results, total, status, error, slots, lastSettled>>

\* any HTTP client posts a raw body to the route handler
DirectRequest(id) ==
  /\ inv[id].pc = "idle"
  /\ \E raw \in RawPayloads, now \in CurrentYears :
       inv' = [inv EXCEPT ![id] = POST(raw, now)]
  /\ UNCHANGED <<params, results, total, status, error, slots, lastSettled>>

FetchRejects(id) ==
  /\ inv[id].pc = "fetching"
  /\ inv' = [inv EXCEPT ![id] = AfterReject(inv[id])]
  /\ UNCHANGED <<params, results, total, status, error, slots, lastSettled>>

ProviderResponds(id, responses) ==
  /\ inv[id].pc = "fetching"
  /\ \E resp \in responses :
       inv' = [inv EXCEPT ![id].pc = "done", ![id].provider = resp,
                          ![id].response = AfterResponse(resp)]
  /\ UNCHANGED <<params, results, total, status, error, slots, lastSettled>>

\* ---- specifications ----
\* the form, the proxy and the provider together
Next ==
  \/ \E e \in FormEdits : handleChange(e[1], e[2])
  \/ \E id \in Ids : handleSubmit(id)
  \/ \E id \in Ids : ClientFetchRejects(id)
  \/ \E id \in Ids : ProxyReceives(id)
  \/ \E id \in Ids : FetchRejects(id)
  \/ \E id \in Ids : ProviderResponds(id, SearchResponses)
  \/ \E id \in Ids : ClientResolves(id)

Spec == Init /\ [][Next]_vars

\* one invocation of the route handler on an arbitrary request body; invocations
\* share no state, so each is followed on its own
NextProxy ==
  \/ DirectRequest(1)
  \/ FetchRejects(1)
  \/ ProviderResponds(1, ProviderResponses)

SpecProxy == Init /\ [][NextProxy]_vars

\* ---- claims about the proxy (checked under SpecProxy) ----
ObjectPayload(i) == inv[i].pc # "idle" /\ inv[i].raw.t = "object"
Built(i) == inv[i].calls >= 1
ProviderAnswered(i) == inv[i].pc = "done" /\ inv[i].provider.kind = "response"

AllWhite(s) == \A k \in 1..Len(s) : IsWhite(s[k])
QueryBlank(raw) ==
  /\ raw.t = "object"
  /\ \/ raw.query.t = "undefined"
     \/ raw.query.t = "string" /\ AllWhite(raw.query.s)

\* C1: an invocation whose payload has a missing, empty or all-whitespace
\* query has ended with 400 {error: "Query is required."} and has made no
\* provider call, in every state from its start on.
C1_BlankQueryRejected ==
  \A i \in Ids :
    (inv[i].pc # "idle" /\ QueryBlank(inv[i].raw)) =>
      /\ inv[i].pc = "done"
      /\ inv[i].response = [status |-> 400, body |-> [error |-> "Query is required."]]
      /\ inv[i].calls = 0
      /\ inv[i].provider.kind = "none"

C1_Witness ==
  \E i \in Ids :
    /\ inv[i].pc = "done"
    /\ inv[i].raw.t = "object"
    /\ inv[i].raw.query = Str(<<" ", "\t">>)
    /\ inv[i].response.status = 400
    /\ inv[i].calls = 0

\* C2: an invocation that received a non-success status from the provider
\* ends with 502 {error: "Failed to retrieve research papers."}, whatever the
\* status and the body.
C2_NonSuccessIs502 ==
  \A i \in Ids :
    (ProviderAnswered(i) /\ inv[i].provider.status \notin 200..299) =>
      inv[i].response =
        [status |-> 502, body |-> [error |-> "Failed to retrieve research papers."]]

IsRelayable(body) ==
  /\ body.t = "object"
  /\ body.data.t = "array"
  /\ body.total.t = "number"

\* C3: a success response {data: D, total: T} of the provider is relayed as
\* 200 {papers: D, total: T}, D and T unchanged, also when T is not the
\* length of D.
C3_SuccessRelayed ==
  \A i \in Ids :
    (/\ ProviderAnswered(i)
     /\ inv[i].provider.status \in 200..299
     /\ inv[i].provider.readable
     /\ IsRelayable(inv[i].provider.body)) =>
      inv[i].response =
        [status |-> 200,
         body |-> [papers |-> inv[i].provider.body.data,
                   total |-> inv[i].provider.body.total]]

C3_Witness ==
  \E i \in Ids :
    /\ ProviderAnswered(i)
    /\ inv[i].provider.status = 200
    /\ inv[i].provider.readable
    /\ inv[i].provider.body.t = "object"
    /\ inv[i].provider.body.data = Arr(<<"p2", "p1">>)
    /\ inv[i].provider.body.total = Num(42)
    /\ inv[i].response.status = 200
    /\ inv[i].response.body.papers = Arr(<<"p2", "p1">>)
    /\ inv[i].response.body.total = Num(42)

\* the steps of an invocation at which an exception is raised
InboundParseFails(i) == inv[i].raw.t = "malformed"
PayloadMalformed(i) ==
  \/ inv[i].raw.t = "null"
  \/ /\ inv[i].raw.t = "object"
     /\ inv[i].raw.query.t = "number"
     /\ inv[i].raw.query.n # 0
  \/ /\ inv[i].raw.t = "object"
     /\ inv[i].raw.query.t = "string"
     /\ ~AllWhite(inv[i].raw.query.s)
     /\ inv[i].raw.publicationType.t = "number"
OutboundFails(i) == inv[i].provider.kind = "rejected"
BodyReadFails(i) == inv[i].provider.kind = "response" /\ ~inv[i].provider.readable
ProviderJsonMalformed(i) ==
  /\ inv[i].provider.kind = "response"
  /\ inv[i].provider.status \in 200..299
  /\ inv[i].provider.body.t \in {"malformed", "null"}
Raised(i) ==
  \/ InboundParseFails(i)
  \/ PayloadMalformed(i)
  \/ OutboundFails(i)
  \/ BodyReadFails(i)
  \/ ProviderJsonMalformed(i)

Documented200(i) ==
  /\ inv[i].response.status = 200
  /\ inv[i].provider.kind = "response"
  /\ DOMAIN inv[i].response.body \subseteq {"papers", "total"}
  /\ \A k \in DOMAIN inv[i].response.body :
       inv[i].response.body[k] =
         inv[i].provider.body[IF k = "papers" THEN "data" ELSE "total"]

Present(v) == v.t \in {"string", "number"} /\ IsFinite(ParseInt(v))
YearOf(v) == ToString(ParseInt(v).n)
YearClauses(i) ==
  IF Len(inv[i].filters) >= 2 THEN SubSeq(inv[i].filters, 1, 2) ELSE <<>>

\* C5: the two year clauses are in the built URL if and only if startYear or
\* endYear is present, that is, parses as a finite integer (0 and negative
\* values included).
C5_YearFilterIffPresent ==
  \A i \in Ids :
    (Built(i) /\ inv[i].raw.t = "object") =>
      (YearClauses(i) # <<>> <=>
         (Present(inv[i].raw.startYear) \/ Present(inv[i].raw.endYear)))

\* C6: with only startYear = S the clauses are year>=S, year<=<current year>;
\* with only endYear = E they are year>=1900, year<=E; with both they are
\* year>=S, year<=E, also when S > E.
C6_YearDefaults ==
  \A i \in Ids :
    (Built(i) /\ inv[i].raw.t = "object") =>
      LET sy == inv[i].raw.startYear
          ey == inv[i].raw.endYear
      IN /\ (Present(sy) /\ ~Present(ey)) =>
              YearClauses(i) = <<"year>=" \o YearOf(sy), "year<=" \o ToString(inv[i].now)>>
         /\ (~Present(sy) /\ Present(ey)) =>
              YearClauses(i) = <<"year>=1900", "year<=" \o YearOf(ey)>>
         /\ (Present(sy) /\ Present(ey)) =>
              YearClauses(i) = <<"year>=" \o YearOf(sy), "year<=" \o YearOf(ey)>>

\* t is p without its leading and trailing whitespace
IsTrimOf(t, p) ==
  /\ t = <<>> \/ (~IsWhite(t[1]) /\ ~IsWhite(t[Len(t)]))
  /\ \E a \in 0..Len(p) :
       /\ a + Len(t) <= Len(p)
       /\ SubSeq(p, a + 1, a + Len(t)) = t
       /\ AllWhite(SubSeq(p, 1, a))
       /\ AllWhite(SubSeq(p, a + Len(t) + 1, Len(p)))
TrimmedOf(p) ==
  CHOOSE t \in {SubSeq(p, a, b) : a \in 1..(Len(p) + 1), b \in 0..Len(p)} : IsTrimOf(t, p)

YearValues == {0, -5, 12, 1900, 2010} \cup CurrentYears
YearClausePairs ==
  {<<"year>=" \o ToString(a), "year<=" \o ToString(b)>> : a \in YearValues, b \in YearValues}
CommaJoined(c) ==
  CASE Len(c) = 1 -> c[1]
    [] Len(c) = 2 -> c[1] \o "," \o c[2]
    [] Len(c) = 3 -> c[1] \o "," \o c[2] \o "," \o c[3]

\* C7: the filter parameter is the emitted clauses joined by commas in the order
\* year>=, year<=, publicationTypes:; the publication-type clause is there if and
\* only if publicationType is non-empty after trimming, with the trimmed value;
\* with no clause the URL has no filter parameter.
C7_FilterParameter ==
  \A i \in Ids :
    (Built(i) /\ inv[i].raw.t = "object") =>
      LET p == inv[i].raw.publicationType
          t == IF p.t = "string" THEN TrimmedOf(p.s) ELSE <<>>
          pubClause == IF t # <<>> THEN <<"publicationTypes:" \o Text(t)>> ELSE <<>>
      IN \E yc \in {<<>>} \cup YearClausePairs :
           /\ inv[i].filters = yc \o pubClause
           /\ IF yc \o pubClause = <<>>
                THEN ~HasParam(inv[i].apiUrl, "filter")
                ELSE /\ HasParam(inv[i].apiUrl, "filter")
                     /\ Param(inv[i].apiUrl, "filter") = CommaJoined(yc \o pubClause)

C7_Witness ==
  \E i \in Ids :
    /\ Built(i)
    /\ inv[i].raw.t = "object"
    /\ inv[i].raw.publicationType = Str(Chars("Review padded"))
    /\ HasParam(inv[i].apiUrl, "filter")
    /\ Param(inv[i].apiUrl, "filter") = "year>=2010,year<=-5,publicationTypes:Review"

NonNumeric(v) == v.t = "string" /\ v.s # <<>> /\ \A k \in 1..Len(v.s) : ~IsDigit(v.s[k])

SameAsWithout(i, field) ==
  LET other == POST([inv[i].raw EXCEPT ![field] = Undefined], inv[i].now)
  IN /\ inv[i].calls = other.calls
     /\ inv[i].apiUrl = other.apiUrl
     /\ inv[i].filters = other.filters
     /\ other.pc = "done" => inv[i].response = other.response

Submitted == {i \in Ids : slots[i].stage # "unused"}
Invoked == {i \in Ids : inv[i].pc # "idle"}
RECURSIVE ProviderCalls(_)
ProviderCalls(S) ==
  IF S = {} THEN 0
  ELSE LET i == CHOOSE j \in S : TRUE IN inv[i].calls + ProviderCalls(S \ {i})
LatestSubmitted == CHOOSE i \in Submitted : \A j \in Submitted : j <= i

\* C9: a submission with a non-empty trimmed query has issued exactly one fetch
\* to the proxy and one with an empty query none (it leaves status 'error' and
\* the "Enter a research topic..." message); an invocation has made at most one
\* provider call; this stays so after a failure; and provider calls <= proxy
\* invocations <= submissions.
C9_NoRetries ==
  /\ \A i \in Submitted :
       IF AllWhite(slots[i].payload.query.s)
         THEN slots[i].fetchCalls = 0 /\ slots[i].stage = "rejected" /\ inv[i].pc = "idle"
         ELSE slots[i].fetchCalls = 1
  /\ (lastSettled = 0 /\ Submitted # {} /\ slots[LatestSubmitted].stage = "rejected") =>
       (status = "error"
        /\ error = Msg("Enter a research topic, drug target, or molecule."))
  /\ \A i \in Ids : inv[i].calls <= 1
  /\ \A i \in Ids : slots[i].stage = "unused" => slots[i].fetchCalls = 0 /\ inv[i].pc = "idle"
  /\ ProviderCalls(Ids) <= Cardinality(Invoked)
  /\ Cardinality(Invoked) <= Cardinality(Submitted)

C9_Witness ==
  \E i, j \in Ids :
    /\ slots[i].stage = "settled"
    /\ inv[i].pc = "done"
    /\ inv[i].provider.kind = "rejected"
    /\ inv[i].response.status = 500
    /\ inv[i].calls = 1
    /\ slots[i].fetchCalls = 1
    /\ status = "error"
    /\ lastSettled = i
    /\ slots[j].stage = "rejected"
    /\ slots[j].fetchCalls = 0

\* C10: submissions overlap and the response that resolves last decides the
\* state: after the handler of submission i has settled last, the form holds i's
\* papers and total with status 'success', or i's error with status 'error',
\* also when a later submission had settled before it.
C10_LastResolvedWins ==
  \A i \in Ids :
    lastSettled = i =>
      IF inv[i].pc = "done" /\ inv[i].response.status \in 200..299
        THEN /\ status = "success"
             /\ results = inv[i].provider.body.data
             /\ total = inv[i].provider.body.total
        ELSE /\ status = "error"
             /\ error = IF inv[i].pc = "done"
                          THEN Msg("Unable to fetch research papers. Try refining your filters.")
                          ELSE Msg("Failed to fetch")

C10_Witness ==
  \E i, j \in Ids :
    /\ i < j
    /\ lastSettled = i
    /\ slots[i].stage = "settled"
    /\ slots[j].stage = "settled"
    /\ inv[i].response.status = 200
    /\ inv[j].response.status = 200
    /\ inv[i].response.body.papers = Arr(<<"p1">>)
    /\ inv[j].response.body.papers = Arr(<<>>)
    /\ status = "success"
    /\ results = Arr(<<"p1">>)
    /\ total = Num(42)

====
